---- MODULE Spec2Model ----
(***************************************************************************)
(* Model of the vehicle-rental Flask application (src/app.py): the booking *)
(* ledger, the vehicles' availability flag, the per-browser session and    *)
(* the request handlers that read and write them.  One action per request  *)
(* handler; a handler runs against the database as one transaction.        *)
(***************************************************************************)
EXTENDS Integers, Sequences, FiniteSets, TLC

\* ------------------------------------------------------------------ bounds
NumUsers == 2
NumVehicles == 2
MaxDay == 2
MaxBookings == 2

Users == 1..NumUsers
VehicleIds == 1..NumVehicles
Days == 1..MaxDay
\* One browser (cookie session) per user.
Clients == Users

\* ------------------------------------------------------------ date strings
\* A date string as the handlers receive and store it: a well-formed
\* '%Y-%m-%d' text denoting a day, a malformed text, or an absent/empty field.
Iso(d) == [kind |-> "iso", day |-> d]
BadStr == [kind |-> "bad", day |-> 0]
EmptyStr == [kind |-> "empty", day |-> 0]

\* Python truthiness of a form/session value: None and '' are falsy.
Truthy(s) == s.kind # "empty"
\* datetime.strptime(s, '%Y-%m-%d'): raises on anything but a well-formed text.
Parses(s) == s.kind = "iso"
strptime(s) == s.day
\* a or b
OrElse(a, b) == IF Truthy(a) THEN a ELSE b

\* ------------------------------------------------------------------- state
VARIABLES
    role,       \* User.role, by user id
    vehicle,    \* Vehicle rows by id: [rent_per_day, availability]
    bookings,   \* Booking rows; the sequence index is Booking.id
    sess        \* the Flask session of each browser

vars == <<role, vehicle, bookings, sess>>

NoInfo == [vehicle_id |-> 0, start_date |-> EmptyStr, end_date |-> EmptyStr]
EmptySession ==
    [user_id |-> 0, role |-> "none", rental_start |-> EmptyStr,
     rental_end |-> EmptyStr, booking_info |-> NoInfo]

\* insert_dummy_vehicles: rent_per_day of VR001..VR020, which get the ids
\* 1..20, and the ids seeded "Unavailable".
SeedRents ==
    <<1800, 1950, 2000, 1850, 3500, 2600, 2800, 2700, 1700, 1650,
      1000, 850, 800, 900, 7000, 7500, 8000, 3200, 3000, 8500>>
SeedRent(v) == SeedRents[v]
SeedUnavailable == {3, 6, 13, 17}
SeedAvailability(v) == IF v \in SeedUnavailable THEN "Unavailable" ELSE "Available"

\* The database after the first start (seeded vehicles, the admin user with
\* id 1) and the registration of the other users with the default role; no
\* booking yet, every browser without a session.
Init ==
    /\ role = [u \in Users |-> IF u = 1 THEN "admin" ELSE "user"]
    /\ vehicle = [v \in VehicleIds |->
                    [rent_per_day |-> SeedRent(v),
                     availability |-> SeedAvailability(v)]]
    /\ bookings = <<>>
    /\ sess = [c \in Clients |-> EmptySession]

\* ------------------------------------------------------------- decorators
\* login_required: 'user_id' in session
LoggedIn(c) == sess[c].user_id # 0
\* admin_required: session.get('role') == 'admin'
IsAdminSession(c) == sess[c].role = "admin"

\* ---------------------------------------------------------- login / logout
login(c) ==
    /\ sess' = [sess EXCEPT ![c].user_id = c, ![c].role = role[c]]
    /\ UNCHANGED <<role, vehicle, bookings>>

logout(c) ==
    /\ sess' = [sess EXCEPT ![c] = EmptySession]
    /\ UNCHANGED <<role, vehicle, bookings>>

\* ------------------------------------------------------------ select_dates
\* What a POST to /select-dates answers.
select_dates_outcome(c, start, end) ==
    IF ~LoggedIn(c) THEN "LoginRequired"
    ELSE IF ~(Parses(start) /\ Parses(end)) THEN "InvalidDateFormat"
    ELSE IF strptime(end) < strptime(start) THEN "InvertedRange"
    ELSE "Ok"

select_dates(c, start, end) ==
    /\ IF select_dates_outcome(c, start, end) = "Ok"
       THEN sess' = [sess EXCEPT ![c].rental_start = start, ![c].rental_end = end]
       ELSE UNCHANGED sess
    /\ UNCHANGED <<role, vehicle, bookings>>

\* ------------------------------------------------------- availability scans
\* Variant of Active: the status filter of the query left out.
Active_any(b) == TRUE
Active(b) == b.status # "Cancelled"

\* Variant of Hits: strict comparisons, so that a shared boundary day is no
\* overlap.
Hits_exclusive(b, req_start, req_end) ==
    /\ Parses(b.start_date) /\ Parses(b.end_date)
    /\ strptime(b.start_date) < req_end
    /\ strptime(b.end_date) > req_start

\* Variant of Hits: only the booking's first day is compared with the
\* requested range.
Hits_startonly(b, req_start, req_end) ==
    /\ Parses(b.start_date) /\ Parses(b.end_date)
    /\ strptime(b.start_date) <= req_end
    /\ strptime(b.start_date) >= req_start

\* Variant of Hits: a row whose stored dates do not parse counts as a hit.
Hits_failclosed(b, req_start, req_end) ==
    \/ ~(Parses(b.start_date) /\ Parses(b.end_date))
    \/ /\ strptime(b.start_date) <= req_end
       /\ strptime(b.end_date) >= req_start

\* The condition of dashboard's and book_vehicle's loop body on one booking:
\* rows whose stored dates do not parse are skipped.
Hits(b, req_start, req_end) ==
    /\ Parses(b.start_date) /\ Parses(b.end_date)
    /\ strptime(b.start_date) <= req_end
    /\ strptime(b.end_date) >= req_start

\* dashboard: the loop over Booking.query.filter(status != 'Cancelled'),
\* from row i on, adding to the set acc.
RECURSIVE UnavailableScan(_, _, _, _, _)
UnavailableScan(bs, i, req_start, req_end, acc) ==
    IF i > Len(bs) THEN acc
    ELSE UnavailableScan(bs, i + 1, req_start, req_end,
            IF Active(bs[i]) /\ Hits(bs[i], req_start, req_end)
            THEN acc \cup {bs[i].vehicle_id} ELSE acc)

\* book_vehicle: the loop over the vehicle's non-cancelled bookings, from row
\* i on; TRUE when it reaches the 'not available' return.
RECURSIVE ConflictScan(_, _, _, _, _)
ConflictScan(bs, i, v, req_start, req_end) ==
    IF i > Len(bs) THEN FALSE
    ELSE IF bs[i].vehicle_id = v /\ Active(bs[i]) /\ Hits(bs[i], req_start, req_end)
    THEN TRUE
    ELSE ConflictScan(bs, i + 1, v, req_start, req_end)

\* session.pop('rental_start'); session.pop('rental_end')
ClearDates(c) ==
    sess' = [sess EXCEPT ![c].rental_start = EmptyStr, ![c].rental_end = EmptyStr]

\* What a GET of /dashboard answers.
dashboard_outcome(c) ==
    IF ~LoggedIn(c) THEN "LoginRequired"
    ELSE IF ~Truthy(sess[c].rental_start) \/ ~Truthy(sess[c].rental_end) THEN "NoDates"
    ELSE IF ~(Parses(sess[c].rental_start) /\ Parses(sess[c].rental_end))
    THEN "InvalidSessionDates"
    ELSE "Ok"

\* The unavailable_vehicle_ids the dashboard page is rendered with.
unavailable_vehicle_ids(c) ==
    UnavailableScan(bookings, 1, strptime(sess[c].rental_start),
                    strptime(sess[c].rental_end), {})

\* Variant of dashboard: the page load also writes the computed set back to
\* the vehicles' flags.
dashboard_sync(c) ==
    /\ IF dashboard_outcome(c) = "InvalidSessionDates"
       THEN ClearDates(c)
       ELSE UNCHANGED sess
    /\ IF dashboard_outcome(c) = "Ok"
       THEN vehicle' = [v \in DOMAIN vehicle |->
                          IF v \in unavailable_vehicle_ids(c)
                          THEN [vehicle[v] EXCEPT !.availability = "Unavailable"]
                          ELSE vehicle[v]]
       ELSE UNCHANGED vehicle
    /\ UNCHANGED <<role, bookings>>

dashboard(c) ==
    /\ IF dashboard_outcome(c) = "InvalidSessionDates"
       THEN ClearDates(c)
       ELSE UNCHANGED sess
    /\ UNCHANGED <<role, vehicle, bookings>>

\* ------------------------------------------------------------ book_vehicle
\* Variant of book_vehicle_outcome: a vehicle flagged "Unavailable" is refused
\* without looking at its bookings.
book_vehicle_outcome_flag(c, vehicle_id, method) ==
    IF ~LoggedIn(c) THEN "LoginRequired"
    ELSE IF vehicle_id \notin DOMAIN vehicle THEN "NotFound"
    ELSE IF ~Truthy(sess[c].rental_start) \/ ~Truthy(sess[c].rental_end) THEN "NoDates"
    ELSE IF ~(Parses(sess[c].rental_start) /\ Parses(sess[c].rental_end))
    THEN "InvalidSessionDates"
    ELSE IF vehicle[vehicle_id].availability = "Unavailable" THEN "DateConflict"
    ELSE IF ConflictScan(bookings, 1, vehicle_id, strptime(sess[c].rental_start),
                         strptime(sess[c].rental_end))
    THEN "DateConflict"
    ELSE IF method = "POST" THEN "ToPayment"
    ELSE "Form"

\* What a request to /book/<vehicle_id> answers.
book_vehicle_outcome(c, vehicle_id, method) ==
    IF ~LoggedIn(c) THEN "LoginRequired"
    ELSE IF vehicle_id \notin DOMAIN vehicle THEN "NotFound"
    ELSE IF ~Truthy(sess[c].rental_start) \/ ~Truthy(sess[c].rental_end) THEN "NoDates"
    ELSE IF ~(Parses(sess[c].rental_start) /\ Parses(sess[c].rental_end))
    THEN "InvalidSessionDates"
    ELSE IF ConflictScan(bookings, 1, vehicle_id, strptime(sess[c].rental_start),
                         strptime(sess[c].rental_end))
    THEN "DateConflict"
    ELSE IF method = "POST" THEN "ToPayment"
    ELSE "Form"

book_vehicle(c, vehicle_id, method, form_start, form_end) ==
    LET outcome == book_vehicle_outcome(c, vehicle_id, method) IN
    /\ IF outcome = "InvalidSessionDates"
       THEN ClearDates(c)
       ELSE IF outcome = "ToPayment"
       THEN sess' = [sess EXCEPT ![c].booking_info =
                [vehicle_id |-> vehicle_id,
                 start_date |-> OrElse(form_start, sess[c].rental_start),
                 end_date |-> OrElse(form_end, sess[c].rental_end)]]
       ELSE UNCHANGED sess
    /\ UNCHANGED <<role, vehicle, bookings>>

\* ----------------------------------------------------------------- payment
\* Variant of Amount: the half rounded up instead of down.
Amount_roundup(rent_per_day, days) == ((rent_per_day * days) + 1) \div 2

\* (end_date - start_date).days + 1
DayCount(start_date, end_date) == (strptime(end_date) - strptime(start_date)) + 1
\* (vehicle.rent_per_day * days) // 2 ; Python's // rounds towards minus infinity
Amount(rent_per_day, days) == (rent_per_day * days) \div 2

\* What a request to /payment answers.  "ServerError": strptime raises
\* ValueError on the stored text, or vehicle is None and .rent_per_day raises.
payment_outcome(c, method) ==
    IF ~LoggedIn(c) THEN "LoginRequired"
    ELSE IF sess[c].booking_info = NoInfo THEN "NoBookingInfo"
    ELSE IF ~(Parses(sess[c].booking_info.start_date)
              /\ Parses(sess[c].booking_info.end_date))
            \/ sess[c].booking_info.vehicle_id \notin DOMAIN vehicle
    THEN "ServerError"
    ELSE IF method = "POST" THEN "Booked"
    ELSE "Quote"

\* Variant of payment: the booking row is written, the vehicle's flag is not.
payment_noflag(c, method) ==
    LET info == sess[c].booking_info IN
    IF payment_outcome(c, method) = "Booked"
    THEN /\ Len(bookings) < MaxBookings
         /\ bookings' = Append(bookings,
               [user_id |-> sess[c].user_id,
                vehicle_id |-> info.vehicle_id,
                start_date |-> info.start_date,
                end_date |-> info.end_date,
                status |-> "Confirmed",
                amount_paid |-> Amount(vehicle[info.vehicle_id].rent_per_day,
                                       DayCount(info.start_date, info.end_date))])
         /\ sess' = [sess EXCEPT ![c].booking_info = NoInfo]
         /\ UNCHANGED <<role, vehicle>>
    ELSE UNCHANGED <<role, vehicle, bookings, sess>>

payment(c, method) ==
    LET info == sess[c].booking_info IN
    IF payment_outcome(c, method) = "Booked"
    THEN /\ Len(bookings) < MaxBookings
         /\ bookings' = Append(bookings,
               [user_id |-> sess[c].user_id,
                vehicle_id |-> info.vehicle_id,
                start_date |-> info.start_date,
                end_date |-> info.end_date,
                status |-> "Confirmed",
                amount_paid |-> Amount(vehicle[info.vehicle_id].rent_per_day,
                                       DayCount(info.start_date, info.end_date))])
         /\ vehicle' = [vehicle EXCEPT ![info.vehicle_id].availability = "Unavailable"]
         /\ sess' = [sess EXCEPT ![c].booking_info = NoInfo]
         /\ UNCHANGED role
    ELSE UNCHANGED <<role, vehicle, bookings, sess>>

\* A POST to /payment whose db.session.commit() raises: the INSERT and the
\* UPDATE belong to the one transaction that is rolled back, and the handler
\* does not reach session.pop('booking_info').
payment_commit_fails(c) ==
    /\ payment_outcome(c, "POST") = "Booked"
    /\ UNCHANGED <<role, vehicle, bookings, sess>>

\* Two POSTs to /payment sent by one browser before the first is answered
\* (a double submit): the session is a signed cookie, each request carries
\* the cookie the browser held when it was sent, so both handlers find the
\* same booking_info and both commit; session.pop only changes the cookie the
\* responses set.
payment_double_submit(c) ==
    LET info == sess[c].booking_info
        row == [user_id |-> sess[c].user_id,
                vehicle_id |-> info.vehicle_id,
                start_date |-> info.start_date,
                end_date |-> info.end_date,
                status |-> "Confirmed",
                amount_paid |-> Amount(vehicle[info.vehicle_id].rent_per_day,
                                       DayCount(info.start_date, info.end_date))]
    IN
    /\ payment_outcome(c, "POST") = "Booked"
    /\ Len(bookings) + 2 <= MaxBookings
    /\ bookings' = Append(Append(bookings, row), row)
    /\ vehicle' = [vehicle EXCEPT ![info.vehicle_id].availability = "Unavailable"]
    /\ sess' = [sess EXCEPT ![c].booking_info = NoInfo]
    /\ UNCHANGED role

\* ------------------------------------------------------------ cancellation
\* Variant of CancelRow: the status is toggled, so that cancelling twice
\* reinstates the booking.
CancelRow_toggle(booking_id) ==
    /\ bookings' = [bookings EXCEPT ![booking_id].status =
                       IF @ = "Cancelled" THEN "Confirmed" ELSE "Cancelled"]
    /\ vehicle' = [vehicle EXCEPT
                     ![bookings[booking_id].vehicle_id].availability = "Available"]

\* Variant of CancelRow: the vehicle row is looked up by the booking's id
\* instead of the booking's vehicle_id.
CancelRow_wrongkey(booking_id) ==
    /\ bookings' = [bookings EXCEPT ![booking_id].status = "Cancelled"]
    /\ vehicle' = [v \in DOMAIN vehicle |->
                     IF v = booking_id
                     THEN [vehicle[v] EXCEPT !.availability = "Available"]
                     ELSE vehicle[v]]

\* Variant of CancelRow: the cancellation also zeroes the recorded amount.
CancelRow_refund(booking_id) ==
    /\ bookings' = [bookings EXCEPT ![booking_id].status = "Cancelled",
                                    ![booking_id].amount_paid = 0]
    /\ vehicle' = [vehicle EXCEPT
                     ![bookings[booking_id].vehicle_id].availability = "Available"]

\* booking.status = 'Cancelled'; booking.vehicle.availability = 'Available'
CancelRow(booking_id) ==
    /\ bookings' = [bookings EXCEPT ![booking_id].status = "Cancelled"]
    /\ vehicle' = [vehicle EXCEPT
                     ![bookings[booking_id].vehicle_id].availability = "Available"]

\* Variant of cancel_booking_outcome: the ownership test left out.
cancel_booking_outcome_noowner(c, booking_id) ==
    IF ~LoggedIn(c) THEN "LoginRequired"
    ELSE IF booking_id \notin DOMAIN bookings THEN "NotFound"
    ELSE "Cancelled"

\* What a POST to /cancel-booking/<booking_id> answers.
cancel_booking_outcome(c, booking_id) ==
    IF ~LoggedIn(c) THEN "LoginRequired"
    ELSE IF booking_id \notin DOMAIN bookings THEN "NotFound"
    ELSE IF bookings[booking_id].user_id # sess[c].user_id THEN "Forbidden"
    ELSE "Cancelled"

cancel_booking(c, booking_id) ==
    /\ IF cancel_booking_outcome(c, booking_id) = "Cancelled"
       THEN CancelRow(booking_id)
       ELSE UNCHANGED <<vehicle, bookings>>
    /\ UNCHANGED <<role, sess>>

\* What a GET of /admin/cancel-booking/<booking_id> answers.
admin_cancel_booking_outcome(c, booking_id) ==
    IF ~IsAdminSession(c) THEN "Forbidden"
    ELSE IF booking_id \notin DOMAIN bookings THEN "NotFound"
    ELSE "Cancelled"

admin_cancel_booking(c, booking_id) ==
    /\ IF admin_cancel_booking_outcome(c, booking_id) = "Cancelled"
       THEN CancelRow(booking_id)
       ELSE UNCHANGED <<vehicle, bookings>>
    /\ UNCHANGED <<role, sess>>

\* --------------------------------------------------------- flag overrides
\* What a POST to /admin/force-available/<vehicle_id> answers.
force_available_outcome(c, vehicle_id) ==
    IF ~IsAdminSession(c) THEN "Forbidden"
    ELSE IF vehicle_id \notin DOMAIN vehicle THEN "NotFound"
    ELSE "Ok"

force_available(c, vehicle_id) ==
    /\ IF force_available_outcome(c, vehicle_id) = "Ok"
       THEN vehicle' = [vehicle EXCEPT ![vehicle_id].availability = "Available"]
       ELSE UNCHANGED vehicle
    /\ UNCHANGED <<role, bookings, sess>>

\* The maintenance script instance/file.py: every vehicle back to "Available".
reset_availability ==
    /\ vehicle' = [v \in DOMAIN vehicle |->
                     [vehicle[v] EXCEPT !.availability = "Available"]]
    /\ UNCHANGED <<role, bookings, sess>>

\* ------------------------------------------------- catalog administration
\* What a POST to /admin/update-rent/<vehicle_id> answers.  "ServerError":
\* Vehicle.query.get returns None and the assignment to .rent_per_day raises.
update_rent_outcome(c, vehicle_id) ==
    IF ~IsAdminSession(c) THEN "Forbidden"
    ELSE IF vehicle_id \notin DOMAIN vehicle THEN "ServerError"
    ELSE "Ok"

update_rent(c, vehicle_id, new_rent) ==
    /\ IF update_rent_outcome(c, vehicle_id) = "Ok"
       THEN vehicle' = [vehicle EXCEPT ![vehicle_id].rent_per_day = new_rent]
       ELSE UNCHANGED vehicle
    /\ UNCHANGED <<role, bookings, sess>>

\* Some booking row, of any status, references the vehicle.
HasBookings(vehicle_id) ==
    \E b \in DOMAIN bookings : bookings[b].vehicle_id = vehicle_id

\* Variant of delete_vehicle_outcome: the rows that reference the vehicle do
\* not stop the delete.
delete_vehicle_outcome_unchecked(c, vehicle_id) ==
    IF ~IsAdminSession(c) THEN "Forbidden"
    ELSE IF vehicle_id \notin DOMAIN vehicle THEN "NotFound"
    ELSE "Deleted"

\* What a GET of /admin/delete-vehicle/<vehicle_id> answers.  "ServerError":
\* the Vehicle.bookings backref has no delete cascade, so the flush sets
\* vehicle_id of every booking of the vehicle to NULL; the column is NOT NULL,
\* the UPDATE raises IntegrityError and nothing is committed.
delete_vehicle_outcome(c, vehicle_id) ==
    IF ~IsAdminSession(c) THEN "Forbidden"
    ELSE IF vehicle_id \notin DOMAIN vehicle THEN "NotFound"
    ELSE IF HasBookings(vehicle_id) THEN "ServerError"
    ELSE "Deleted"

delete_vehicle(c, vehicle_id) ==
    /\ IF delete_vehicle_outcome(c, vehicle_id) = "Deleted"
       THEN vehicle' = [v \in DOMAIN vehicle \ {vehicle_id} |-> vehicle[v]]
       ELSE UNCHANGED vehicle
    /\ UNCHANGED <<role, bookings, sess>>

\* -------------------------------------------------------- role management
\* What a GET of /admin/promote/<user_id> answers.
promote_user_outcome(c, user_id) ==
    IF ~IsAdminSession(c) THEN "Forbidden"
    ELSE IF user_id \notin DOMAIN role THEN "NoUser"
    ELSE "Promoted"

promote_user(c, user_id) ==
    /\ IF promote_user_outcome(c, user_id) = "Promoted"
       THEN role' = [role EXCEPT ![user_id] = "admin"]
       ELSE UNCHANGED role
    /\ UNCHANGED <<vehicle, bookings, sess>>

\* What a GET of /admin/demote/<user_id> answers.
demote_user_outcome(c, user_id) ==
    IF ~IsAdminSession(c) THEN "Forbidden"
    ELSE IF user_id = sess[c].user_id THEN "NotYourself"
    ELSE IF user_id \notin DOMAIN role THEN "NoUser"
    ELSE "Demoted"

demote_user(c, user_id) ==
    /\ IF demote_user_outcome(c, user_id) = "Demoted"
       THEN role' = [role EXCEPT ![user_id] = "user"]
       ELSE UNCHANGED role
    /\ UNCHANGED <<vehicle, bookings, sess>>

\* What a POST to /remove_admin answers; user_id is the user the form's
\* email belongs to, 0 when it belongs to none.
remove_admin_outcome(c, user_id) ==
    IF ~IsAdminSession(c) THEN "Forbidden"
    ELSE IF user_id \notin DOMAIN role \/ role[user_id] # "admin" THEN "NoAdmin"
    ELSE IF user_id = sess[c].user_id THEN "NotYourself"
    ELSE "Demoted"

remove_admin(c, user_id) ==
    /\ IF remove_admin_outcome(c, user_id) = "Demoted"
       THEN role' = [role EXCEPT ![user_id] = "user"]
       ELSE UNCHANGED role
    /\ UNCHANGED <<vehicle, bookings, sess>>

\* ------------------------------------------------------------------ inputs
Methods == {"GET", "POST"}
\* Ids a request may name: the rows that can exist and one that never does.
RequestVehicleIds == 0..NumVehicles
RequestBookingIds == 1..MaxBookings
\* Submissions of the date-selection form: every pair of days (ordered or
\* inverted), a malformed text and an empty form.
SelectInputs ==
    {<<Iso(a), Iso(b)>> : a, b \in Days} \cup {<<BadStr, Iso(1)>>, <<EmptyStr, EmptyStr>>}
\* The date fields of the booking form left empty: the session's dates are used.
NoFormDates == {<<EmptyStr, EmptyStr>>}
\* The date fields of the booking form filled in by the user: an inverted
\* range, a malformed start, an end other than the selected one.
FormDates ==
    NoFormDates \cup {<<Iso(MaxDay), Iso(1)>>, <<BadStr, EmptyStr>>, <<EmptyStr, Iso(MaxDay)>>}

\* The requests of the booking flow, the booking form's date fields left empty.
Next ==
    \/ \E c \in Clients : login(c)
    \/ \E c \in Clients : logout(c)
    \/ \E c \in Clients, f \in SelectInputs : select_dates(c, f[1], f[2])
    \/ \E c \in Clients : dashboard(c)
    \/ \E c \in Clients, v \in RequestVehicleIds, m \in Methods, f \in NoFormDates :
          book_vehicle(c, v, m, f[1], f[2])
    \/ \E c \in Clients, m \in Methods : payment(c, m)
    \/ \E c \in Clients, b \in RequestBookingIds : cancel_booking(c, b)
    \/ \E c \in Clients, b \in RequestBookingIds : admin_cancel_booking(c, b)
    \/ \E c \in Clients, v \in RequestVehicleIds : force_available(c, v)
    \/ reset_availability

Spec == Init /\ [][Next]_vars

\* The browsers of the users registered as plain 'user'.
Customers == {c \in Clients : c # 1}

\* The customers' requests, the booking form's date fields filled in freely.
NextForm ==
    \/ \E c \in Customers : login(c)
    \/ \E c \in Customers : logout(c)
    \/ \E c \in Customers, f \in SelectInputs : select_dates(c, f[1], f[2])
    \/ \E c \in Customers, v \in RequestVehicleIds, m \in Methods, f \in FormDates :
          book_vehicle(c, v, m, f[1], f[2])
    \/ \E c \in Customers, m \in Methods : payment(c, m)
    \/ \E c \in Customers, b \in RequestBookingIds : cancel_booking(c, b)

SpecForm == Init /\ [][NextForm]_vars

\* Values an admin types into the new_rent field: an even and an odd rent.
RentInputs == {2000, 2001}

\* The customers' requests of NextForm, and an admin changing rents meanwhile.
NextPricing ==
    \/ NextForm
    \/ login(1)
    \/ \E c \in Clients, v \in RequestVehicleIds, r \in RentInputs : update_rent(c, v, r)

SpecPricing == Init /\ [][NextPricing]_vars

\* The customers' booking flow (form date fields left empty), and an admin
\* cancelling bookings and deleting vehicles meanwhile.
NextCatalog ==
    \/ \E c \in Clients : login(c)
    \/ \E c \in Customers : logout(c)
    \/ \E c \in Customers, f \in SelectInputs : select_dates(c, f[1], f[2])
    \/ \E c \in Customers : dashboard(c)
    \/ \E c \in Customers, v \in RequestVehicleIds, m \in Methods, f \in NoFormDates :
          book_vehicle(c, v, m, f[1], f[2])
    \/ \E c \in Customers, m \in Methods : payment(c, m)
    \/ \E c \in Customers : payment_commit_fails(c)
    \/ \E c \in Customers, b \in RequestBookingIds : cancel_booking(c, b)
    \/ \E c \in Clients, b \in RequestBookingIds : admin_cancel_booking(c, b)
    \/ \E c \in Clients, v \in RequestVehicleIds : delete_vehicle(c, v)

SpecCatalog == Init /\ [][NextCatalog]_vars

\* The customers' booking flow (form date fields left empty), and the flag
\* overrides: an admin's force-available and the reset script.
NextFlags ==
    \/ \E c \in Clients : login(c)
    \/ \E c \in Customers : logout(c)
    \/ \E c \in Customers, f \in SelectInputs : select_dates(c, f[1], f[2])
    \/ \E c \in Customers : dashboard(c)
    \/ \E c \in Customers, v \in RequestVehicleIds, m \in Methods, f \in NoFormDates :
          book_vehicle(c, v, m, f[1], f[2])
    \/ \E c \in Customers, m \in Methods : payment(c, m)
    \/ \E c \in Customers, b \in RequestBookingIds : cancel_booking(c, b)
    \/ \E c \in Clients, v \in RequestVehicleIds : force_available(c, v)
    \/ reset_availability

SpecFlags == Init /\ [][NextFlags]_vars

\* Booking rows as a database file may hold them: the date columns are
\* String(50) and take any text, well-formed (ordered or inverted) or not.
StoredDates == {Iso(d) : d \in Days} \cup {BadStr}
StoredRows ==
    [user_id : Customers, vehicle_id : VehicleIds, start_date : StoredDates,
     end_date : StoredDates, status : {"Confirmed", "Cancelled"}, amount_paid : {0}]
StoredLedgers ==
    {<<>>} \cup {<<r>> : r \in StoredRows} \cup {<<r, q>> : r, q \in StoredRows}

\* The application started on a database file that already holds booking
\* rows (db.create_all keeps existing tables and rows).
InitStored ==
    /\ role = [u \in Users |-> IF u = 1 THEN "admin" ELSE "user"]
    /\ vehicle = [v \in VehicleIds |->
                    [rent_per_day |-> SeedRent(v),
                     availability |-> SeedAvailability(v)]]
    /\ bookings \in StoredLedgers
    /\ sess = [c \in Clients |-> EmptySession]

\* The customers' requests that run the availability scans.
NextReads ==
    \/ \E c \in Customers : login(c)
    \/ \E c \in Customers : logout(c)
    \/ \E c \in Customers, f \in SelectInputs : select_dates(c, f[1], f[2])
    \/ \E c \in Customers : dashboard(c)
    \/ \E c \in Customers, v \in RequestVehicleIds, m \in Methods, f \in NoFormDates :
          book_vehicle(c, v, m, f[1], f[2])

SpecStored == InitStored /\ [][NextReads]_vars

\* The customers' booking flow (form date fields left empty), a browser
\* possibly submitting the payment form twice at once.
NextResubmit ==
    \/ \E c \in Customers : login(c)
    \/ \E c \in Customers : logout(c)
    \/ \E c \in Customers, f \in SelectInputs : select_dates(c, f[1], f[2])
    \/ \E c \in Customers, v \in RequestVehicleIds, m \in Methods, f \in NoFormDates :
          book_vehicle(c, v, m, f[1], f[2])
    \/ \E c \in Customers, m \in Methods : payment(c, m)
    \/ \E c \in Customers : payment_double_submit(c)
    \/ \E c \in Customers, b \in RequestBookingIds : cancel_booking(c, b)

SpecResubmit == Init /\ [][NextResubmit]_vars

\* Ids a request may name: the users and one that does not exist.
RequestUserIds == 0..NumUsers
\* The browser of the user the application is seeded with.
SeedAdmin == {c \in Clients : c = 1}

\* The seeded admin's bookings (form date fields left empty), and the
\* admins' operations: promoting, demoting, cancelling any booking.
NextRoles ==
    \/ \E c \in Clients : login(c)
    \/ \E c \in Clients : logout(c)
    \/ \E c \in SeedAdmin, f \in SelectInputs : select_dates(c, f[1], f[2])
    \/ \E c \in SeedAdmin, v \in RequestVehicleIds, m \in Methods, f \in NoFormDates :
          book_vehicle(c, v, m, f[1], f[2])
    \/ \E c \in SeedAdmin, m \in Methods : payment(c, m)
    \/ \E c \in Clients, b \in RequestBookingIds : admin_cancel_booking(c, b)
    \/ \E c \in Clients, u \in RequestUserIds : promote_user(c, u)
    \/ \E c \in Clients, u \in RequestUserIds : demote_user(c, u)
    \/ \E c \in Clients, u \in RequestUserIds : remove_admin(c, u)

SpecRoles == Init /\ [][NextRoles]_vars

\* ------------------------------------------- the application of create_app
\* The application create_app() builds has the routes of the blueprint
\* app.routes.bp only; the module app/routes.py is not among the sources, the
\* view of '/' is taken from what tests/test_app.py expects of it.
HelloBody == [message |-> "Hello from vehicle-rental Flask app!"]

\* Variant of index_response: the view of '/' of app.py (home), which sends
\* a browser to the login page, for the browsers that are not logged in.
index_response_home(c) ==
    IF LoggedIn(c) THEN [status |-> 200, json |-> HelloBody]
    ELSE [status |-> 302, json |-> [message |-> ""]]

\* What a GET of '/' answers.
index_response(c) == [status |-> 200, json |-> HelloBody]

index(c) == UNCHANGED vars

\* Cookie sessions a browser may present.
SessionInputs ==
    {EmptySession} \cup
    {[user_id |-> u, role |-> r, rental_start |-> d, rental_end |-> d,
      booking_info |-> NoInfo] :
        u \in Users, r \in {"user", "admin"}, d \in {EmptyStr, Iso(1), BadStr}}

InitFactory ==
    /\ role = [u \in Users |-> IF u = 1 THEN "admin" ELSE "user"]
    /\ vehicle = [v \in VehicleIds |->
                    [rent_per_day |-> SeedRent(v),
                     availability |-> SeedAvailability(v)]]
    /\ bookings = <<>>
    /\ sess \in [Clients -> SessionInputs]

NextFactory == \E c \in Clients : index(c)

SpecFactory == InitFactory /\ [][NextFactory]_vars

\* ============================================================== properties
\* The inclusive range a stored booking row denotes.
StartDay(b) == strptime(b.start_date)
EndDay(b) == strptime(b.end_date)
\* Two inclusive ranges [s1, e1] and [s2, e2] meet the overlap condition.
RangesOverlap(s1, e1, s2, e2) == s1 <= e2 /\ e1 >= s2
BookingIds == DOMAIN bookings
\* Some active booking of vehicle v overlaps the range [s, e].
ActiveOverlap(bs, v, s, e) ==
    \E i \in DOMAIN bs :
        /\ bs[i].vehicle_id = v
        /\ bs[i].status # "Cancelled"
        /\ RangesOverlap(StartDay(bs[i]), EndDay(bs[i]), s, e)

\* C1: in every reachable state no vehicle has two distinct active
\* (non-Cancelled) bookings whose inclusive date ranges overlap.
C1_NoDoubleBooking ==
    \A i, j \in BookingIds :
        (/\ i < j
         /\ bookings[i].vehicle_id = bookings[j].vehicle_id
         /\ bookings[i].status # "Cancelled"
         /\ bookings[j].status # "Cancelled")
        => ~RangesOverlap(StartDay(bookings[i]), EndDay(bookings[i]),
                          StartDay(bookings[j]), EndDay(bookings[j]))

\* C2: of two reserve attempts for the same vehicle with overlapping ranges
\* whose check and commit steps interleave, exactly one creates a booking:
\* the commit (payment POST) of an attempt whose range overlaps an active
\* booking of its vehicle, made by the other attempt since the check, is
\* rejected and adds no booking row.
C2_RaceLoserRejected ==
    [][\A c \in Clients :
          (/\ sess[c].booking_info # NoInfo
           /\ Parses(sess[c].booking_info.start_date)
           /\ Parses(sess[c].booking_info.end_date)
           /\ ActiveOverlap(bookings, sess[c].booking_info.vehicle_id,
                            strptime(sess[c].booking_info.start_date),
                            strptime(sess[c].booking_info.end_date))
           /\ payment(c, "POST"))
          => bookings' = bookings]_vars

\* C3: a cancel request (either cancel route) by a logged-in requester who is
\* neither the booking's owner nor an administrator is answered Forbidden and
\* changes neither the booking rows nor the vehicle rows.
C3_ForbiddenCancel ==
    [][\A c \in Clients, b \in BookingIds :
          (/\ LoggedIn(c)
           /\ bookings[b].user_id # sess[c].user_id
           /\ ~IsAdminSession(c))
          => /\ cancel_booking_outcome(c, b) = "Forbidden"
             /\ admin_cancel_booking_outcome(c, b) = "Forbidden"
             /\ (cancel_booking(c, b) \/ admin_cancel_booking(c, b))
                   => (bookings' = bookings /\ vehicle' = vehicle)]_vars

\* C3 witness: a booking exists, a logged-in user who neither owns it nor
\* holds the admin role is present, and the booking is still active.
C3_Witness ==
    \E c \in Clients, b \in BookingIds :
        /\ LoggedIn(c)
        /\ bookings[b].user_id # sess[c].user_id
        /\ ~IsAdminSession(c)
        /\ bookings[b].status = "Confirmed"
        /\ vehicle[bookings[b].vehicle_id].availability = "Unavailable"
        /\ cancel_booking_outcome(c, b) = "Forbidden"

\* C4: cancelling a booking that is already Cancelled, by its owner or by an
\* admin, answers AlreadyCancelled and leaves the vehicle's flag unchanged,
\* whatever was booked on the vehicle since.
C4_RecancelNoEffect ==
    [][\A c \in Clients, b \in BookingIds :
          bookings[b].status = "Cancelled"
          => /\ (LoggedIn(c) /\ bookings[b].user_id = sess[c].user_id
                    /\ cancel_booking(c, b))
                => (/\ cancel_booking_outcome(c, b) = "AlreadyCancelled"
                    /\ vehicle' = vehicle)
             /\ (IsAdminSession(c) /\ admin_cancel_booking(c, b))
                => (/\ admin_cancel_booking_outcome(c, b) = "AlreadyCancelled"
                    /\ vehicle' = vehicle)]_vars

\* A day d lies in the inclusive range of booking b.
CoversDay(b, d) == StartDay(b) <= d /\ d <= EndDay(b)

\* C5: after a successful cancel of one booking, if another active booking
\* of the same vehicle still covers the current date, the vehicle's flag is
\* "Unavailable".  The handlers never read the clock, so every day is a
\* possible current date.
C5_FlagRecomputed ==
    [][\A c \in Clients, b \in BookingIds :
          (/\ bookings[b].status # "Cancelled"
           /\ (cancel_booking(c, b) \/ admin_cancel_booking(c, b))
           /\ bookings'[b].status = "Cancelled")
          => \A today \in Days :
                (\E o \in DOMAIN bookings' :
                    /\ o # b
                    /\ bookings'[o].vehicle_id = bookings[b].vehicle_id
                    /\ bookings'[o].status # "Cancelled"
                    /\ CoversDay(bookings'[o], today))
                => vehicle'[bookings[b].vehicle_id].availability = "Unavailable"]_vars

\* A booking row of vehicle v is added in this step.
BookingCreated(v) ==
    /\ Len(bookings') = Len(bookings) + 1
    /\ bookings'[Len(bookings')].vehicle_id = v
\* An active booking of vehicle v becomes Cancelled in this step.
BookingCancelled(v) ==
    \E b \in BookingIds :
        /\ bookings[b].vehicle_id = v
        /\ bookings[b].status # "Cancelled"
        /\ bookings'[b].status = "Cancelled"
FlagChanged(v) == vehicle'[v].availability # vehicle[v].availability

C7_CancelledTerminal ==
    [][/\ Len(bookings') >= Len(bookings)
       /\ \A b \in DOMAIN bookings' :
             IF b \in BookingIds
             THEN \/ bookings'[b].status = bookings[b].status
                  \/ (bookings[b].status = "Pending"
                        /\ bookings'[b].status = "Confirmed")
                  \/ (bookings[b].status \in {"Pending", "Confirmed"}
                        /\ bookings'[b].status = "Cancelled")
             ELSE bookings'[b].status \in {"Pending", "Confirmed"}]_vars

\* C7 witness: a booking was cancelled, its user booked the same vehicle for
\* an overlapping range afterwards, and the old row is still Cancelled.
C7_Witness ==
    \E b1, b2 \in BookingIds :
        /\ b1 < b2
        /\ bookings[b1].status = "Cancelled"
        /\ bookings[b2].status = "Confirmed"
        /\ bookings[b1].user_id = bookings[b2].user_id
        /\ bookings[b1].vehicle_id = bookings[b2].vehicle_id
        /\ RangesOverlap(StartDay(bookings[b1]), EndDay(bookings[b1]),
                         StartDay(bookings[b2]), EndDay(bookings[b2]))

\* The session of browser c holds a parsable requested range.
HasRequest(c) ==
    /\ LoggedIn(c)
    /\ Parses(sess[c].rental_start) /\ Parses(sess[c].rental_end)
ReqStart(c) == strptime(sess[c].rental_start)
ReqEnd(c) == strptime(sess[c].rental_end)

\* C8: the per-vehicle availability check answers 'not available' iff some
\* active booking of that same vehicle has start <= requested end and
\* end >= requested start; a shared boundary day conflicts, bookings on
\* the days before or after the requested range do not.
C8_CheckIsInclusiveOverlap ==
    \A c \in Clients, v \in DOMAIN vehicle :
        HasRequest(c)
        => /\ (book_vehicle_outcome(c, v, "POST") = "DateConflict"
                 <=> \E i \in BookingIds :
                        /\ bookings[i].vehicle_id = v
                        /\ bookings[i].status # "Cancelled"
                        /\ StartDay(bookings[i]) <= ReqEnd(c)
                        /\ EndDay(bookings[i]) >= ReqStart(c))
           /\ (\E i \in BookingIds :
                  /\ bookings[i].vehicle_id = v
                  /\ bookings[i].status # "Cancelled"
                  /\ StartDay(bookings[i]) <= EndDay(bookings[i])
                  /\ (EndDay(bookings[i]) = ReqStart(c)
                        \/ StartDay(bookings[i]) = ReqEnd(c)))
              => book_vehicle_outcome(c, v, "POST") = "DateConflict"
           /\ (\A i \in BookingIds :
                  (bookings[i].vehicle_id = v /\ bookings[i].status # "Cancelled")
                  => (EndDay(bookings[i]) < ReqStart(c)
                        \/ StartDay(bookings[i]) > ReqEnd(c)))
              => book_vehicle_outcome(c, v, "POST") = "ToPayment"

\* C8 witness: for one requested range, one vehicle is refused on a booking
\* that shares only its last day with the range, and another vehicle, booked
\* up to the day before the range, is accepted.
C8_Witness ==
    \E c \in Clients, v, w \in DOMAIN vehicle, i, j \in BookingIds :
        /\ HasRequest(c)
        /\ bookings[i].vehicle_id = v /\ bookings[i].status # "Cancelled"
        /\ StartDay(bookings[i]) < ReqStart(c)
        /\ EndDay(bookings[i]) = ReqStart(c)
        /\ book_vehicle_outcome(c, v, "POST") = "DateConflict"
        /\ bookings[j].vehicle_id = w /\ bookings[j].status # "Cancelled"
        /\ EndDay(bookings[j]) + 1 = ReqStart(c)
        /\ book_vehicle_outcome(c, w, "POST") = "ToPayment"

\* C9: the set the dashboard computes for a requested range is exactly the
\* set of vehicle ids with an active booking overlapping that range.
C9_UnavailableSetExact ==
    \A c \in Clients :
        dashboard_outcome(c) = "Ok"
        => unavailable_vehicle_ids(c) =
              {v \in {bookings[i].vehicle_id : i \in BookingIds} :
                  ActiveOverlap(bookings, v, ReqStart(c), ReqEnd(c))}

\* C9 witness: for one requested range the set holds a vehicle with an
\* active overlapping booking and leaves out a vehicle whose only
\* overlapping booking is Cancelled.
C9_Witness ==
    \E c \in Clients, v, w \in DOMAIN vehicle, i, j \in BookingIds :
        /\ dashboard_outcome(c) = "Ok"
        /\ v # w
        /\ bookings[i].vehicle_id = v /\ bookings[i].status = "Confirmed"
        /\ bookings[j].vehicle_id = w /\ bookings[j].status = "Cancelled"
        /\ RangesOverlap(StartDay(bookings[j]), EndDay(bookings[j]),
                         ReqStart(c), ReqEnd(c))
        /\ unavailable_vehicle_ids(c) = {v}

\* C10: every booking in the ledger has parsable dates with start <= end, a
\* day count of at least 1 and a non-negative amount, also when its dates
\* come from the booking form.
C10_StoredRangesValid ==
    \A b \in BookingIds :
        /\ Parses(bookings[b].start_date) /\ Parses(bookings[b].end_date)
        /\ StartDay(bookings[b]) <= EndDay(bookings[b])
        /\ DayCount(bookings[b].start_date, bookings[b].end_date) >= 1
        /\ bookings[b].amount_paid >= 0

\* C11: the amount recorded on a created booking is the floor of half of
\* (the vehicle's rent at the commit * the day count of the booking's own
\* stored range), the day count being (end - start) + 1: a single day counts
\* as 1, and rent 2000 for 3 days gives 3000.
C11_AmountIsHalfPrice ==
    [][\A v \in DOMAIN vehicle :
          BookingCreated(v)
          => LET b == bookings'[Len(bookings')]
                 dayCount == (EndDay(b) - StartDay(b)) + 1
                 total == vehicle[v].rent_per_day * dayCount
             IN /\ 2 * b.amount_paid <= total
                /\ total < 2 * b.amount_paid + 2
                /\ (StartDay(b) = EndDay(b)) => (dayCount = 1)
                /\ Amount(2000, DayCount(Iso(1), Iso(3))) = 3000]_vars

\* C11 witness: a single-day booking was paid 1000, the floor of 2001 / 2: a
\* rent no vehicle is seeded with, typed in by an admin before the commit.
C11_Witness ==
    \E b \in BookingIds :
        /\ StartDay(bookings[b]) = EndDay(bookings[b])
        /\ bookings[b].amount_paid = 1000

\* C12: a payment request whose booking_info names a vehicle that does not
\* exist (deleted by an admin since the booking form was submitted) is
\* answered with a returned VehicleNotFound error.
C12_MissingVehicleReturned ==
    \A c \in Clients :
        (/\ LoggedIn(c)
         /\ sess[c].booking_info # NoInfo
         /\ sess[c].booking_info.vehicle_id \notin DOMAIN vehicle)
        => payment_outcome(c, "POST") = "VehicleNotFound"

\* C13: in every reachable state each booking row references an existing
\* user and an existing vehicle, whatever bookings, cancellations and admin
\* delete-vehicle requests came before.
C13_BookingsReferenceRows ==
    \A b \in BookingIds :
        /\ bookings[b].user_id \in DOMAIN role
        /\ bookings[b].vehicle_id \in DOMAIN vehicle

\* C13 witness: one vehicle has been deleted, and an admin's delete request
\* for the vehicle of a booking that was cancelled is refused.
C13_Witness ==
    /\ DOMAIN vehicle # VehicleIds
    /\ \E c \in Clients, b \in BookingIds :
          /\ bookings[b].status = "Cancelled"
          /\ delete_vehicle_outcome(c, bookings[b].vehicle_id) = "ServerError"

\* C14: a reserve writes the booking row and the vehicle's flag in one step:
\* every step that adds a booking row (Confirmed or Pending) leaves its
\* vehicle flagged "Unavailable" in the same state, and a payment request
\* that adds no row (it failed, or its commit failed) changes no vehicle row.
C14_ReserveAtomic ==
    [][/\ \A v \in DOMAIN vehicle :
             BookingCreated(v)
             => /\ bookings'[Len(bookings')].status \in {"Confirmed", "Pending"}
                /\ v \in DOMAIN vehicle'
                /\ vehicle'[v].availability = "Unavailable"
       /\ \A c \in Clients, m \in Methods :
             ((payment(c, m) \/ payment_commit_fails(c)) /\ bookings' = bookings)
             => vehicle' = vehicle]_vars

\* C14 witness: a reserve has committed (an active booking whose vehicle is
\* flagged "Unavailable"), and a later reserve is about to fail on a vehicle
\* that was deleted after the booking form.
C14_Witness ==
    /\ \E b \in BookingIds :
          /\ bookings[b].status = "Confirmed"
          /\ vehicle[bookings[b].vehicle_id].availability = "Unavailable"
    /\ \E c \in Clients :
          /\ sess[c].booking_info # NoInfo
          /\ payment_outcome(c, "POST") = "ServerError"

\* C15: a booking row, once created, is never removed and never changes its
\* start date, end date, vehicle, user or amount: a step changes at most the
\* status of an existing row.
C15_BookingImmutable ==
    [][\A b \in BookingIds :
          /\ b \in DOMAIN bookings'
          /\ bookings'[b] = [bookings[b] EXCEPT !.status = bookings'[b].status]]_vars

\* C15 witness: a booking that has been cancelled still carries its dates,
\* vehicle, user and amount, and a later booking stands next to it.
C15_Witness ==
    \E b1, b2 \in BookingIds :
        /\ b1 < b2
        /\ bookings[b1].status = "Cancelled"
        /\ Parses(bookings[b1].start_date) /\ Parses(bookings[b1].end_date)
        /\ bookings[b1].vehicle_id \in DOMAIN vehicle
        /\ bookings[b1].user_id \in Users
        /\ bookings[b1].amount_paid > 0

\* C16: in the state after a booking is successfully cancelled, for every
\* requested range that overlaps that booking and no other active booking of
\* its vehicle, the vehicle is not in the dashboard's unavailable set and the
\* per-vehicle check lets the reserve through to the payment step, where
\* before the cancellation it was refused.
C16_CancelReleases ==
    [][\A b \in BookingIds, r \in Clients :
          LET v == bookings[b].vehicle_id IN
          (/\ bookings[b].status # "Cancelled"
           /\ bookings'[b].status = "Cancelled"
           /\ HasRequest(r)'
           /\ RangesOverlap(StartDay(bookings[b]), EndDay(bookings[b]),
                            ReqStart(r)', ReqEnd(r)')
           /\ \A o \in DOMAIN bookings' :
                 (o # b /\ bookings'[o].vehicle_id = v /\ bookings'[o].status # "Cancelled")
                 => ~RangesOverlap(StartDay(bookings'[o]), EndDay(bookings'[o]),
                                   ReqStart(r)', ReqEnd(r)'))
          => /\ book_vehicle_outcome(r, v, "POST") = "DateConflict"
             /\ book_vehicle_outcome(r, v, "POST")' = "ToPayment"
             /\ v \notin unavailable_vehicle_ids(r)']_vars

\* C16 witness: a booking was cancelled and another user then reserved the
\* same vehicle for a range overlapping the cancelled one.
C16_Witness ==
    \E b1, b2 \in BookingIds :
        /\ b1 < b2
        /\ bookings[b1].status = "Cancelled"
        /\ bookings[b2].status = "Confirmed"
        /\ bookings[b1].user_id # bookings[b2].user_id
        /\ bookings[b1].vehicle_id = bookings[b2].vehicle_id
        /\ RangesOverlap(StartDay(bookings[b1]), EndDay(bookings[b1]),
                         StartDay(bookings[b2]), EndDay(bookings[b2]))

\* This step changes nothing but availability flags.
OnlyFlagsChange ==
    /\ bookings' = bookings /\ sess' = sess /\ role' = role
    /\ DOMAIN vehicle' = DOMAIN vehicle
    /\ \A v \in DOMAIN vehicle : vehicle'[v].rent_per_day = vehicle[v].rent_per_day

\* C17: the conflict decisions do not read the availability flag: between
\* two states that differ only in flags, the answer of the per-vehicle check
\* and the dashboard's unavailable set are the same for every browser and
\* vehicle; and a vehicle flagged "Unavailable" that has no active booking
\* overlapping the requested range passes the check and is not in the set.
C17_FlagNotConsulted ==
    [][/\ OnlyFlagsChange
          => \A c \in Clients :
                /\ \A v \in RequestVehicleIds, m \in Methods :
                      book_vehicle_outcome(c, v, m)' = book_vehicle_outcome(c, v, m)
                /\ dashboard_outcome(c)' = dashboard_outcome(c)
                /\ dashboard_outcome(c) = "Ok"
                      => unavailable_vehicle_ids(c)' = unavailable_vehicle_ids(c)
       /\ \A c \in Clients, v \in DOMAIN vehicle :
             (/\ HasRequest(c)
              /\ vehicle[v].availability = "Unavailable"
              /\ ~ActiveOverlap(bookings, v, ReqStart(c), ReqEnd(c)))
             => /\ book_vehicle_outcome(c, v, "POST") = "ToPayment"
                /\ v \notin unavailable_vehicle_ids(c)]_vars

\* C17 witness: a vehicle is flagged "Unavailable" because of a booking on
\* another day, and a request for a range that booking does not overlap
\* passes the check.
C17_Witness ==
    \E c \in Clients, v \in DOMAIN vehicle :
        /\ HasRequest(c)
        /\ vehicle[v].availability = "Unavailable"
        /\ ~ActiveOverlap(bookings, v, ReqStart(c), ReqEnd(c))
        /\ book_vehicle_outcome(c, v, "POST") = "ToPayment"

\* C18: the availability reads write nothing to the store: a dashboard
\* request and a booking-form request (which runs the per-vehicle check)
\* leave every booking row, every vehicle row and every flag as they were.
C18_ReadsChangeNothing ==
    [][\A c \in Clients :
          /\ dashboard(c)
                => (bookings' = bookings /\ vehicle' = vehicle /\ role' = role)
          /\ \A v \in RequestVehicleIds, m \in Methods, f \in FormDates :
                book_vehicle(c, v, m, f[1], f[2])
                => (bookings' = bookings /\ vehicle' = vehicle /\ role' = role)]_vars

\* C18 witness: with bookings in the store, one browser has loaded a
\* dashboard whose unavailable set is not empty and has passed the
\* per-vehicle check for another vehicle.
C18_Witness ==
    \E c \in Clients :
        /\ dashboard_outcome(c) = "Ok"
        /\ unavailable_vehicle_ids(c) # {}
        /\ sess[c].booking_info # NoInfo
        /\ sess[c].booking_info.vehicle_id \notin unavailable_vehicle_ids(c)

\* The stored dates of row b parse and form an ordered range.
ValidRange(b) ==
    /\ Parses(b.start_date) /\ Parses(b.end_date)
    /\ StartDay(b) <= EndDay(b)
\* The requested range of browser c, as the date columns of a row.
RequestRow(c) == [start_date |-> sess[c].rental_start, end_date |-> sess[c].rental_end]

\* C19: the overlap condition of the scans is symmetric: for valid ranges A
\* and B (two stored rows, or a stored row and a requested range), the
\* condition holds of row A against range B iff it holds of row B against
\* range A.
C19_OverlapSymmetric ==
    /\ \A i, j \in BookingIds :
          (ValidRange(bookings[i]) /\ ValidRange(bookings[j]))
          => (Hits(bookings[i], StartDay(bookings[j]), EndDay(bookings[j]))
                <=> Hits(bookings[j], StartDay(bookings[i]), EndDay(bookings[i])))
    /\ \A i \in BookingIds, c \in Clients :
          (ValidRange(bookings[i]) /\ HasRequest(c))
          => (Hits(bookings[i], ReqStart(c), ReqEnd(c))
                <=> Hits(RequestRow(c), StartDay(bookings[i]), EndDay(bookings[i])))

\* C19 witness: a stored two-day range and a requested single day that is
\* its last day overlap, and a stored row that ends the day before the
\* requested range does not.
C19_Witness ==
    \E i, j \in BookingIds, c \in Clients :
        /\ ValidRange(bookings[i]) /\ ValidRange(bookings[j]) /\ HasRequest(c)
        /\ StartDay(bookings[i]) < EndDay(bookings[i])
        /\ ReqStart(c) = EndDay(bookings[i]) /\ ReqEnd(c) = ReqStart(c)
        /\ Hits(bookings[i], ReqStart(c), ReqEnd(c))
        /\ EndDay(bookings[j]) < ReqStart(c)
        /\ ~Hits(bookings[j], ReqStart(c), ReqEnd(c))

\* The active rows whose stored dates parse and overlap the range [s, e].
ParsableHits(s, e) ==
    {i \in BookingIds :
        /\ bookings[i].status # "Cancelled"
        /\ Parses(bookings[i].start_date) /\ Parses(bookings[i].end_date)
        /\ RangesOverlap(StartDay(bookings[i]), EndDay(bookings[i]), s, e)}

\* C20: an active booking row whose start or end date does not parse is
\* skipped by both scans: for every requested range the dashboard scan
\* completes with the set of the vehicles of the active, parsable,
\* overlapping rows, and the per-vehicle check answers (refused or passed)
\* on those rows alone.
C20_UnparsableRowsSkipped ==
    \A c \in Clients :
        HasRequest(c)
        => /\ dashboard_outcome(c) = "Ok"
           /\ unavailable_vehicle_ids(c) =
                 {bookings[i].vehicle_id : i \in ParsableHits(ReqStart(c), ReqEnd(c))}
           /\ \A v \in DOMAIN vehicle :
                 book_vehicle_outcome(c, v, "POST") =
                    IF \E i \in ParsableHits(ReqStart(c), ReqEnd(c)) :
                          bookings[i].vehicle_id = v
                    THEN "DateConflict" ELSE "ToPayment"

\* C20 witness: the store holds an active row with an unparsable date for
\* one vehicle and an active, parsable, overlapping row for another; the
\* dashboard set holds only the second vehicle and the first passes the
\* check.
C20_Witness ==
    \E c \in Clients, i, j \in BookingIds :
        /\ HasRequest(c)
        /\ bookings[i].status = "Confirmed"
        /\ ~(Parses(bookings[i].start_date) /\ Parses(bookings[i].end_date))
        /\ bookings[j].status = "Confirmed"
        /\ bookings[j].vehicle_id # bookings[i].vehicle_id
        /\ unavailable_vehicle_ids(c) = {bookings[j].vehicle_id}
        /\ book_vehicle_outcome(c, bookings[i].vehicle_id, "POST") = "ToPayment"

\* C21: a GET of '/' on the application of create_app() is answered with
\* status 200 and the JSON body {"message": "Hello from vehicle-rental Flask
\* app!"}, whatever session the browser presents.
C21_IndexHello ==
    \A c \in Clients :
        /\ index_response(c).status = 200
        /\ index_response(c).json = [message |-> "Hello from vehicle-rental Flask app!"]

\* C21 witness: a browser without a session and a browser with an admin's
\* session are both answered 200.
C21_Witness ==
    \E c, d \in Clients :
        /\ ~LoggedIn(c) /\ index_response(c).status = 200
        /\ IsAdminSession(d) /\ index_response(d).status = 200

\* C22: the range a booking is stored with is the range the overlap check
\* of the booking-form step validated: the selection a booking-form request
\* writes to the session carries the session's requested dates, which are
\* the dates the check ran on, and the payment step stores the dates of
\* that selection.
C22_StoredRangeWasChecked ==
    [][\A c \in Clients :
          /\ (sess'[c].booking_info # sess[c].booking_info
                 /\ sess'[c].booking_info # NoInfo)
             => /\ sess'[c].booking_info.start_date = sess[c].rental_start
                /\ sess'[c].booking_info.end_date = sess[c].rental_end
          /\ (payment(c, "POST") /\ Len(bookings') = Len(bookings) + 1)
             => /\ bookings'[Len(bookings')].start_date = sess[c].booking_info.start_date
                /\ bookings'[Len(bookings')].end_date = sess[c].booking_info.end_date]_vars

\* The session of browser c holds dates that a successful date selection
\* stored: both parse and the start is not after the end.
HasSelectedDates(c) ==
    /\ HasRequest(c)
    /\ ReqStart(c) <= ReqEnd(c)

\* C23: the booking flow of one session is ordered.  A step adds at most one
\* booking row, and only for a logged-in browser whose session holds a
\* pending selection, which the step removes; a selection is written only
\* for a browser that holds successfully selected dates and whose
\* per-vehicle check passes; so one booking-form submission yields at most
\* one booking.
C23_FlowOrdering ==
    [][/\ Len(bookings') <= Len(bookings) + 1
       /\ Len(bookings') = Len(bookings) + 1
             => \E c \in Clients :
                   /\ LoggedIn(c)
                   /\ sess[c].booking_info # NoInfo
                   /\ bookings'[Len(bookings')].user_id = sess[c].user_id
                   /\ bookings'[Len(bookings')].vehicle_id = sess[c].booking_info.vehicle_id
                   /\ sess'[c].booking_info = NoInfo
       /\ \A c \in Clients :
             (sess'[c].booking_info # sess[c].booking_info
                /\ sess'[c].booking_info # NoInfo)
             => /\ HasSelectedDates(c)
                /\ book_vehicle_outcome(c, sess'[c].booking_info.vehicle_id, "POST")
                      = "ToPayment"]_vars

\* C24: admin privilege follows the user's current role: an admin-cancel
\* request for another user's booking, made by a logged-in user whose role
\* is not (or no longer) 'admin', changes neither the bookings nor the
\* vehicles, also in a session opened while the user was an admin.
C24_PrivilegeFollowsRole ==
    [][\A c \in Clients, b \in BookingIds :
          (/\ LoggedIn(c)
           /\ role[sess[c].user_id] # "admin"
           /\ bookings[b].user_id # sess[c].user_id
           /\ admin_cancel_booking(c, b))
          => (bookings' = bookings /\ vehicle' = vehicle)]_vars
====
